---- MODULE Spec2Model ----
(***************************************************************************)
(* Connections Buddy: the game state store of ConnectionsGame.tsx, its     *)
(* three localStorage keys and the puzzle loader.                          *)
(*                                                                         *)
(* Strings are sequences of one-character strings, so that split, join,   *)
(* trim and toUpperCase are computed and not assumed.  A calendar date     *)
(* 'YYYY-MM-DD' is the number of its day; '' is NoDate.  One action is one *)
(* event handler together with the render and the persistence effect that  *)
(* React runs after it (state updates of one handler are batched).         *)
(***************************************************************************)
EXTENDS Integers, Sequences, FiniteSets, TLC

VARIABLES
  activeColor,      \* useState: the color applied by a tile click
  tileMarks,        \* useState: tile index (0-based) -> ordered list of colors
  originalWords,    \* useState: the un-shuffled word list
  words,            \* useState: the displayed word list
  isEditing,        \* useState: the word editor is open
  editText,         \* useState: the text of the word editor
  isLoading,        \* useState: a load is outstanding
  selectedDate,     \* useState: the date of the date picker
  selectedPill,     \* useState: "today" | "date" | "custom"
  puzzleDate,       \* useState: the date the displayed puzzle belongs to
  lsGameState,      \* localStorage[STORAGE_KEY]: NoState or a GameState
  lsPuzzleCache,    \* localStorage[PUZZLE_CACHE_KEY]: date -> word list
  lsPuzzleStates,   \* localStorage[PUZZLE_STATE_CACHE_KEY]: date -> PuzzleState
  pendingLoad,      \* the load awaiting its network response, or NoLoad
  today,            \* the local calendar day of the wall clock
  tzEast,           \* the local timezone is ahead of UTC
  storageFault,     \* localStorage throws: [reads, writes], each a Boolean
  lastOp,           \* history: the handler that ran last, with its inputs
  inForce,          \* history: date -> marks and color last shown under that date
  shownWords,       \* history: date -> word order last shown under that date
  fetchedDoc,       \* history: date -> the document of its last successful fetch
  prevLoad,         \* history: date -> the last finished load for that date
  used,             \* history: how many gestures the user has made, by kind
  base,             \* history: marks and color when the recorded run began
  trail             \* history: the handlers of the recorded run, in order

vars == <<activeColor, tileMarks, originalWords, words, isEditing, editText,
          isLoading, selectedDate, selectedPill, puzzleDate, lsGameState,
          lsPuzzleCache, lsPuzzleStates, pendingLoad, today, tzEast,
          storageFault, lastOp, inForce, shownWords, fetchedDoc, prevLoad,
          used, base, trail>>

uiVars == <<activeColor, tileMarks, originalWords, words, isEditing, editText,
            isLoading, selectedDate, selectedPill, puzzleDate>>

----------------------------------------------------------------------------
(* Program constants *)

COLORS == <<"yellow", "green", "blue", "purple", "red">>

Color == {COLORS[i] : i \in 1..Len(COLORS)}

SAMPLE_WORDS ==
  <<
     <<"B","A","S","S">>, <<"F","L","O","U","N","D","E","R">>, <<"S","O","L","E">>, <<"S","A","L","M","O","N">>,
     <<"C","O","N","D","U","C","T","O","R">>, <<"E","N","G","I","N","E","E","R">>, <<"F","I","R","E","M","A","N">>, <<"B","R","A","K","E","M","A","N">>,
     <<"S","P","R","I","N","G">>, <<"S","U","M","M","E","R">>, <<"F","A","L","L">>, <<"W","I","N","T","E","R">>,
     <<"M","A","R","S">>, <<"V","E","N","U","S">>, <<"J","U","P","I","T","E","R">>, <<"S","A","T","U","R","N">>
  >>

MaxWords == 16

MinAllowedDay == 2

NoDate == 0

\* an absent value (null, no pending load) is the empty sequence, a present
\* value v is <<v>>
None == <<>>

Some(v) == <<v>>

----------------------------------------------------------------------------
(* Bounds of the model *)

\* the last day the clock reaches
MaxDay == 3

\* the leading grid positions whose shuffle draw is free
MaxShuffled == 2

\* the user gestures of one behaviour
MaxGestures == 4

\* the longest text typed into the word editor, the example texts apart
MaxTyped == 3

\* the most cards a fetched document holds, the example documents apart
MaxCards == 3

\* the gestures of a recorded run
MaxTrail == 2

----------------------------------------------------------------------------
(* Strings *)

LowerLetters == <<"a","b","c","d","e","f","g","h","i","j","k","l","m","n","o","p","q","r","s","t","u","v","w","x","y","z">>

UpperLetters == <<"A","B","C","D","E","F","G","H","I","J","K","L","M","N","O","P","Q","R","S","T","U","V","W","X","Y","Z">>

WhiteSpace == {" ", "\n", "\t"}

ToUpperChar(c) ==
  IF \E i \in 1..Len(LowerLetters) : LowerLetters[i] = c
  THEN UpperLetters[CHOOSE i \in 1..Len(LowerLetters) : LowerLetters[i] = c]
  ELSE c

ToUpperCase(s) == [i \in 1..Len(s) |-> ToUpperChar(s[i])]

MinOf(S) == CHOOSE x \in S : \A y \in S : x <= y

\* the first index >= i of s that holds white space, Len(s)+1 if none
NextSeparator(s, i) ==
  MinOf({k \in i..Len(s) : s[k] \in WhiteSpace} \cup {Len(s) + 1})

\* the first index >= i of s that holds no white space, Len(s)+1 if none
SkipSeparator(s, i) ==
  MinOf({k \in i..Len(s) : s[k] \notin WhiteSpace} \cup {Len(s) + 1})

\* String.prototype.split(/[\s\n]+/): the pieces between maximal runs of
\* white space; a leading or trailing run leaves an empty piece
RECURSIVE SplitFrom(_, _)
SplitFrom(s, i) ==
  LET e == NextSeparator(s, i)
      piece == SubSeq(s, i, e - 1)
  IN IF e > Len(s) THEN <<piece>>
     ELSE <<piece>> \o SplitFrom(s, SkipSeparator(s, e))

Split(s) == SplitFrom(s, 1)

\* String.prototype.trim: without the leading and the trailing white space
TrimStart(s) == SubSeq(s, SkipSeparator(s, 1), Len(s))

TrimEnd(s) ==
  LET last == {k \in 1..Len(s) : s[k] \notin WhiteSpace}
  IN IF last = {} THEN <<>> ELSE SubSeq(s, 1, CHOOSE k \in last : \A j \in last : j <= k)

Trim(s) == TrimEnd(TrimStart(s))

\* Array.prototype.join(' ')
RECURSIVE Join(_)
Join(ws) ==
  IF ws = <<>> THEN <<>>
  ELSE IF Len(ws) = 1 THEN ws[1]
  ELSE ws[1] \o <<" ">> \o Join(Tail(ws))

Slice(s, n) == SubSeq(s, 1, IF Len(s) < n THEN Len(s) ELSE n)

----------------------------------------------------------------------------
(* Tile marks: a Record<number, Color[]> is a function from its keys *)

EmptyMarks == [i \in {} |-> <<>>]

MapPut(m, k, v) == [i \in (DOMAIN m) \cup {k} |-> IF i = k THEN v ELSE m[i]]

MapDel(m, k) == [i \in (DOMAIN m) \ {k} |-> m[i]]

Includes(s, x) == \E i \in 1..Len(s) : s[i] = x

Without(s, x) == SelectSeq(s, LAMBDA y : y # x)

\* a toggle that leaves the emptied list of a tile in the map
ToggleMarks_KeepsEmpty(prev, tileIndex, color) ==
  LET currentMarks == IF tileIndex \in DOMAIN prev THEN prev[tileIndex] ELSE <<>>
  IN IF Includes(currentMarks, color)
     THEN MapPut(prev, tileIndex, Without(currentMarks, color))
     ELSE MapPut(prev, tileIndex, Append(currentMarks, color))

\* a toggle that puts an absent colour in front of the tile's list
ToggleMarks_Prepends(prev, tileIndex, color) ==
  LET currentMarks == IF tileIndex \in DOMAIN prev THEN prev[tileIndex] ELSE <<>>
      newMarks == Without(currentMarks, color)
  IN IF Includes(currentMarks, color)
     THEN IF Len(newMarks) = 0
          THEN MapDel(prev, tileIndex)
          ELSE MapPut(prev, tileIndex, newMarks)
     ELSE MapPut(prev, tileIndex, <<color>> \o currentMarks)

\* the updater of handleTileClick
ToggleMarks(prev, tileIndex, color) ==
  LET currentMarks == IF tileIndex \in DOMAIN prev THEN prev[tileIndex] ELSE <<>>
      newMarks == Without(currentMarks, color)
  IN IF Includes(currentMarks, color)
     THEN IF Len(newMarks) = 0
          THEN MapDel(prev, tileIndex)
          ELSE MapPut(prev, tileIndex, newMarks)
     ELSE MapPut(prev, tileIndex, Append(currentMarks, color))

\* a swap that only recolours the marks of the dragged colour
SwapColor_Overwrites(color, fromColor, toColor) ==
  IF color = fromColor THEN toColor ELSE color

SwapColor(color, fromColor, toColor) ==
  IF color = fromColor THEN toColor
  ELSE IF color = toColor THEN fromColor
  ELSE color

\* the updater of handleColorSwap
SwapMarks(prev, fromColor, toColor) ==
  [t \in DOMAIN prev |->
     [i \in 1..Len(prev[t]) |-> SwapColor(prev[t][i], fromColor, toColor)]]

\* a clear that keeps the entry of a tile left without colours
ClearMarks_KeepsEmpty(prev, colorToClear) ==
  [t \in DOMAIN prev |-> Without(prev[t], colorToClear)]

\* the updater of handleColorClear
ClearMarks(prev, colorToClear) ==
  LET kept == {t \in DOMAIN prev : Len(Without(prev[t], colorToClear)) > 0}
  IN [t \in kept |-> Without(prev[t], colorToClear)]

----------------------------------------------------------------------------
(* Shuffle *)

\* an exchange that copies one item over the other
SwapAt_Copies(arr, i, j) ==
  [k \in 1..Len(arr) |-> IF k = i THEN arr[j] ELSE arr[k]]

SwapAt(arr, i, j) ==
  [k \in 1..Len(arr) |-> IF k = i THEN arr[j] ELSE IF k = j THEN arr[i] ELSE arr[k]]

\* the loop of handleShuffle: i is the 0-based loop index, draw[i] the value
\* of Math.floor(Math.random() * (i + 1))
RECURSIVE FisherYates(_, _, _)
FisherYates(arr, i, draw) ==
  IF i <= 0 THEN arr
  ELSE FisherYates(SwapAt(arr, i + 1, draw[i] + 1), i - 1, draw)

\* Array.prototype.indexOf, 0-based, -1 when absent
IndexOf(arr, x) ==
  IF \E k \in 1..Len(arr) : arr[k] = x
  THEN MinOf({k \in 1..Len(arr) : arr[k] = x}) - 1
  ELSE -1

\* a shuffle that leaves the marks at their grid positions
RemapMarks_KeepsSlots(marks, keys, oldWords, shuffledWords, acc) == marks

\* the forEach of handleShuffle over Object.entries(tileMarks), which visits
\* the integer keys in ascending order
RECURSIVE RemapMarks(_, _, _, _, _)
RemapMarks(marks, keys, oldWords, shuffledWords, acc) ==
  IF keys = {} THEN acc
  ELSE LET oldIndex == MinOf(keys)
           newIndex == IF oldIndex < Len(oldWords)
                       THEN IndexOf(shuffledWords, oldWords[oldIndex + 1])
                       ELSE -1
       IN RemapMarks(marks, keys \ {oldIndex}, oldWords, shuffledWords,
                     IF newIndex # -1
                     THEN MapPut(acc, newIndex, marks[oldIndex])
                     ELSE acc)

----------------------------------------------------------------------------
(* Word lists *)

\* a parse that keeps the empty pieces of the split
ParseEditText_KeepsEmpty(text) ==
  LET pieces == Split(text)
  IN Slice([i \in 1..Len(pieces) |-> ToUpperCase(Trim(pieces[i]))], MaxWords)

\* the parse of handleEditSave
ParseEditText(text) ==
  LET pieces  == Split(text)
      mapped  == [i \in 1..Len(pieces) |-> ToUpperCase(Trim(pieces[i]))]
  IN Slice(SelectSeq(mapped, LAMBDA w : Len(w) > 0), MaxWords)

\* data.categories.forEach(category => allCards.push(...category.cards))
RECURSIVE Flatten(_)
Flatten(categories) ==
  IF categories = <<>> THEN <<>>
  ELSE Head(categories) \o Flatten(Tail(categories))

\* a parse that leaves the cards in document order
SortCards_Unsorted(cards) == cards

\* Array.prototype.sort((a, b) => a.position - b.position), which is stable:
\* a card goes behind every card whose position is not greater
InsertCard(sorted, card) ==
  LET n == Cardinality({k \in 1..Len(sorted) : sorted[k].position <= card.position})
  IN SubSeq(sorted, 1, n) \o <<card>> \o SubSeq(sorted, n + 1, Len(sorted))

RECURSIVE SortCards(_)
SortCards(cards) ==
  IF cards = <<>> THEN <<>>
  ELSE InsertCard(SortCards(SubSeq(cards, 1, Len(cards) - 1)), cards[Len(cards)])

parseNYTData(data) ==
  LET sorted == SortCards(Flatten(data))
  IN [i \in 1..Len(sorted) |-> ToUpperCase(sorted[i].content)]

----------------------------------------------------------------------------
(* Inputs of the model *)

Days == 1..MaxDay

\* what the remote source may answer: a document is the list of its
\* categories, a category the list of its cards
Card(content, position) == [content |-> content, position |-> position]

DocExample == << <<Card(<<"c","a","t">>, 2), Card(<<"d","o","g">>, 0)>> >>

DocTwoGroups ==
  << <<Card(<<"a">>, 1), Card(<<"b"," ","c">>, 3)>>,
     <<Card(<<"b">>, 0), Card(<<"a">>, 2)>> >>

Docs == {DocExample, DocTwoGroups}

\* what the user may type into the word editor
TextPair == <<"b", " ", "a">>

TextTriple == <<"a", " ", "a", "\n", "b", " ">>

TypedTexts == {TextPair, TextTriple}

\* the tiles and swatches the user touches
ClickTiles == {0, 3}

PickColors == {"yellow", "green"}

\* what dataTransfer.getData('text/plain') may return on a drop: the colour of
\* a dragged swatch, nothing, or text dragged in from elsewhere
DragPayloads == PickColors \cup {"", "text"}

\* the values of Math.random() the shuffle may see: the draw of loop index i
\* is any of 0..i for the first MaxShuffled positions and i itself (no move)
\* beyond them
DrawsFor(n) ==
  LET m == IF n < MaxShuffled THEN n ELSE MaxShuffled
      free == {f \in [1..(m - 1) -> 0..(m - 1)] : \A i \in 1..(m - 1) : f[i] <= i}
  IN {[i \in 1..(n - 1) |-> IF i <= m - 1 THEN f[i] ELSE i] : f \in free}

----------------------------------------------------------------------------
(* State initialisation and the persistence effect *)

EmptyByDate == [d \in {} |-> <<>>]

NoFault == [reads |-> FALSE, writes |-> FALSE]

\* a read inside try/catch: getItem or JSON.parse throws, the catch block logs
\* and the function returns its default
Readable(stored, absent) == IF storageFault.reads THEN absent ELSE stored

\* a write inside try/catch: setItem throws, the catch block logs and the
\* stored value stays
Written(stored, value) == IF storageFault.writes THEN stored ELSE value

\* a read that hands out the stored snapshot although the read failed
loadGameState_Unguarded == lsGameState

\* loadGameState
loadGameState == Readable(lsGameState, None)

\* loadPuzzleCache
loadPuzzleCache == Readable(lsPuzzleCache, EmptyByDate)

\* loadPuzzleStateCache
loadPuzzleStateCache == Readable(lsPuzzleStates, EmptyByDate)

\* getCurrentGameState
getCurrentGameState ==
  [originalWords |-> originalWords, tileMarks |-> tileMarks,
   activeColor |-> activeColor, selectedPill |-> selectedPill,
   selectedDate |-> selectedDate, puzzleDate |-> puzzleDate]

PuzzleStateOf(marks, color) == [tileMarks |-> marks, activeColor |-> color]

\* a start that restores the persisted pill whatever the day
getCurrentPillState_AsPersisted(cachedState, now) ==
  IF cachedState = None THEN "custom" ELSE cachedState[1].selectedPill

\* getCurrentPillState
getCurrentPillState(cachedState, now) ==
  IF cachedState = None THEN "custom"
  ELSE IF cachedState[1].selectedPill = "today" /\ cachedState[1].puzzleDate # now
       THEN "date"
       ELSE cachedState[1].selectedPill

\* the useState initialisers of ConnectionsGame; [] and {} are truthy, ''
\* is falsy
Mounted(cachedState, now) ==
  LET has == cachedState # None
      c   == cachedState[1]
      ow  == IF has THEN c.originalWords ELSE SAMPLE_WORDS
  IN [activeColor   |-> IF has THEN c.activeColor ELSE "yellow",
      tileMarks     |-> IF has THEN c.tileMarks ELSE EmptyMarks,
      originalWords |-> ow,
      words         |-> ow,
      editText      |-> Join(ow),
      selectedDate  |-> IF has
                        THEN IF c.selectedDate # NoDate THEN c.selectedDate
                             ELSE c.puzzleDate
                        ELSE NoDate,
      selectedPill  |-> getCurrentPillState(cachedState, now),
      puzzleDate    |-> IF has THEN c.puzzleDate ELSE NoDate]

\* an effect that saves the snapshot and never the progress of the puzzle
Persist_SnapshotOnly ==
  /\ lsGameState' = Written(lsGameState, Some(getCurrentGameState'))
  /\ UNCHANGED lsPuzzleStates

\* an effect that files the progress under the date picked last
Persist_UnderSelectedDate ==
  /\ lsGameState' = Written(lsGameState, Some(getCurrentGameState'))
  /\ lsPuzzleStates' =
       IF selectedDate' # NoDate
       THEN Written(lsPuzzleStates,
                    MapPut(loadPuzzleStateCache, selectedDate',
                           PuzzleStateOf(tileMarks', activeColor')))
       ELSE lsPuzzleStates

\* the useEffect that follows a render: saveGameState, and savePuzzleState
\* when a puzzle date is associated
Persist ==
  /\ lsGameState' = Written(lsGameState, Some(getCurrentGameState'))
  /\ lsPuzzleStates' =
       IF puzzleDate' # NoDate
       THEN Written(lsPuzzleStates,
                    MapPut(loadPuzzleStateCache, puzzleDate',
                           PuzzleStateOf(tileMarks', activeColor')))
       ELSE lsPuzzleStates

\* history: the marks and color shown while a date is associated
Shown ==
  /\ inForce' = IF puzzleDate' # NoDate
                THEN MapPut(inForce, puzzleDate', PuzzleStateOf(tileMarks', activeColor'))
                ELSE inForce
  /\ shownWords' = IF puzzleDate' # NoDate
                   THEN MapPut(shownWords, puzzleDate', words')
                   ELSE shownWords

NoPrev == [date |-> NoDate, fetched |-> FALSE, outcome |-> "none"]

Op(name) ==
  [op |-> name, date |-> NoDate, picked |-> NoDate, fetched |-> FALSE,
   prev |-> NoPrev]

\* the state after the component has mounted on a given localStorage and its
\* effect has run, on the day of the minimum date
MountedOn(cachedState, puzzleCache) ==
  LET m == Mounted(cachedState, MinAllowedDay)
  IN /\ today = MinAllowedDay
     /\ activeColor = m.activeColor
     /\ tileMarks = m.tileMarks
     /\ originalWords = m.originalWords
     /\ words = m.words
     /\ isEditing = FALSE
     /\ editText = m.editText
     /\ isLoading = FALSE
     /\ selectedDate = m.selectedDate
     /\ selectedPill = m.selectedPill
     /\ puzzleDate = m.puzzleDate
     /\ lsGameState = Some(getCurrentGameState)
     /\ lsPuzzleCache = puzzleCache
     /\ lsPuzzleStates =
          IF puzzleDate # NoDate
          THEN MapPut(EmptyByDate, puzzleDate, PuzzleStateOf(tileMarks, activeColor))
          ELSE EmptyByDate
     /\ pendingLoad = None
     /\ lastOp = Op("mount")
     /\ inForce = lsPuzzleStates
     /\ shownWords = IF puzzleDate # NoDate
                     THEN MapPut(EmptyByDate, puzzleDate, words)
                     ELSE EmptyByDate
     /\ storageFault = NoFault
     /\ fetchedDoc = EmptyByDate
     /\ prevLoad = NoPrev
     /\ used = [clicks |-> 0, loads |-> 0, other |-> 0]
     /\ base = Some(PuzzleStateOf(tileMarks, activeColor))
     /\ trail = <<>>

\* the first visit: localStorage is empty
Init ==
  /\ tzEast \in BOOLEAN
  /\ MountedOn(None, EmptyByDate)

----------------------------------------------------------------------------
(* Event handlers.  Each is the handler, the render and the effect. *)

envVars == <<today, tzEast, storageFault>>

loadHistory == <<fetchedDoc, prevLoad>>

handleTileClick(tileIndex) ==
  /\ tileIndex \in 0..(Len(words) - 1)
  /\ tileMarks' = ToggleMarks(tileMarks, tileIndex, activeColor)
  /\ UNCHANGED <<activeColor, originalWords, words, isEditing, editText,
                 isLoading, selectedDate, selectedPill, puzzleDate>>
  /\ Persist /\ Shown
  /\ lastOp' = Op("handleTileClick")
  /\ UNCHANGED <<lsPuzzleCache, pendingLoad, envVars, loadHistory>>

\* onClick of a swatch
setActiveColor(color) ==
  /\ activeColor' = color
  /\ UNCHANGED <<tileMarks, originalWords, words, isEditing, editText,
                 isLoading, selectedDate, selectedPill, puzzleDate>>
  /\ Persist /\ Shown
  /\ lastOp' = Op("setActiveColor")
  /\ UNCHANGED <<lsPuzzleCache, pendingLoad, envVars, loadHistory>>

\* a swap that leaves the active colour alone
handleColorSwap_KeepsActive(fromColor, toColor) ==
  /\ IF fromColor = toColor
     THEN UNCHANGED <<tileMarks, activeColor>>
     ELSE /\ tileMarks' = SwapMarks(tileMarks, fromColor, toColor)
          /\ UNCHANGED activeColor
  /\ UNCHANGED <<originalWords, words, isEditing, editText,
                 isLoading, selectedDate, selectedPill, puzzleDate>>
  /\ Persist /\ Shown
  /\ lastOp' = Op("handleColorSwap")
  /\ UNCHANGED <<lsPuzzleCache, pendingLoad, envVars, loadHistory>>

handleColorSwap(fromColor, toColor) ==
  /\ IF fromColor = toColor
     THEN UNCHANGED <<tileMarks, activeColor>>
     ELSE /\ tileMarks' = SwapMarks(tileMarks, fromColor, toColor)
          /\ activeColor' = SwapColor(activeColor, fromColor, toColor)
  /\ UNCHANGED <<originalWords, words, isEditing, editText,
                 isLoading, selectedDate, selectedPill, puzzleDate>>
  /\ Persist /\ Shown
  /\ lastOp' = Op("handleColorSwap")
  /\ UNCHANGED <<lsPuzzleCache, pendingLoad, envVars, loadHistory>>

\* handleDrop of the swatch `color` with the dragged swatch as payload
handleDrop(draggedColor, color) ==
  /\ draggedColor # ""
  /\ draggedColor # color
  /\ handleColorSwap(draggedColor, color)

\* a drop on the reset control that resets the board
handleColorClear_FullReset(colorToClear) ==
  /\ colorToClear # ""
  /\ tileMarks' = EmptyMarks
  /\ activeColor' = "yellow"
  /\ words' = originalWords
  /\ UNCHANGED <<originalWords, isEditing, editText,
                 isLoading, selectedDate, selectedPill, puzzleDate>>
  /\ Persist /\ Shown
  /\ lastOp' = Op("handleColorClear")
  /\ UNCHANGED <<lsPuzzleCache, pendingLoad, envVars, loadHistory>>

\* onDrop of the reset control
handleColorClear(colorToClear) ==
  /\ colorToClear # ""
  /\ tileMarks' = ClearMarks(tileMarks, colorToClear)
  /\ UNCHANGED <<activeColor, originalWords, words, isEditing, editText,
                 isLoading, selectedDate, selectedPill, puzzleDate>>
  /\ Persist /\ Shown
  /\ lastOp' = Op("handleColorClear")
  /\ UNCHANGED <<lsPuzzleCache, pendingLoad, envVars, loadHistory>>

\* a reset that leaves the shuffled order on display
handleReset_KeepsOrder ==
  /\ tileMarks' = EmptyMarks
  /\ activeColor' = "yellow"
  /\ UNCHANGED <<words, originalWords, isEditing, editText,
                 isLoading, selectedDate, selectedPill, puzzleDate>>
  /\ Persist /\ Shown
  /\ lastOp' = Op("handleReset")
  /\ UNCHANGED <<lsPuzzleCache, pendingLoad, envVars, loadHistory>>

handleReset ==
  /\ tileMarks' = EmptyMarks
  /\ activeColor' = "yellow"
  /\ words' = originalWords
  /\ UNCHANGED <<originalWords, isEditing, editText,
                 isLoading, selectedDate, selectedPill, puzzleDate>>
  /\ Persist /\ Shown
  /\ lastOp' = Op("handleReset")
  /\ UNCHANGED <<lsPuzzleCache, pendingLoad, envVars, loadHistory>>

\* a shuffle that starts from the order on display
handleShuffle_FromDisplay(draw) ==
  LET shuffledWords == FisherYates(words, Len(words) - 1, draw)
  IN /\ words' = shuffledWords
     /\ tileMarks' = RemapMarks(tileMarks, DOMAIN tileMarks, words,
                                shuffledWords, EmptyMarks)
     /\ UNCHANGED <<activeColor, originalWords, isEditing, editText,
                    isLoading, selectedDate, selectedPill, puzzleDate>>
     /\ Persist /\ Shown
     /\ lastOp' = Op("handleShuffle")
     /\ UNCHANGED <<lsPuzzleCache, pendingLoad, envVars, loadHistory>>

handleShuffle(draw) ==
  LET shuffledWords == FisherYates(originalWords, Len(originalWords) - 1, draw)
  IN /\ words' = shuffledWords
     /\ tileMarks' = RemapMarks(tileMarks, DOMAIN tileMarks, words,
                                shuffledWords, EmptyMarks)
     /\ UNCHANGED <<activeColor, originalWords, isEditing, editText,
                    isLoading, selectedDate, selectedPill, puzzleDate>>
     /\ Persist /\ Shown
     /\ lastOp' = Op("handleShuffle")
     /\ UNCHANGED <<lsPuzzleCache, pendingLoad, envVars, loadHistory>>

\* a Custom button that stays enabled while a load is outstanding
handleCustomPill_WhileLoading ==
  /\ IF selectedPill = "custom" /\ ~isEditing
     THEN \* handleEditStart
          /\ editText' = Join(words)
          /\ isEditing' = TRUE
          /\ selectedPill' = "custom"
     ELSE /\ selectedPill' = "custom"
          /\ isEditing' = FALSE
          /\ UNCHANGED editText
  /\ UNCHANGED <<activeColor, tileMarks, originalWords, words,
                 isLoading, selectedDate, puzzleDate>>
  /\ Persist /\ Shown
  /\ lastOp' = Op("handleCustomPill")
  /\ UNCHANGED <<lsPuzzleCache, pendingLoad, envVars, loadHistory>>

\* the Custom button is disabled while loading
handleCustomPill ==
  /\ ~isLoading
  /\ IF selectedPill = "custom" /\ ~isEditing
     THEN \* handleEditStart
          /\ editText' = Join(words)
          /\ isEditing' = TRUE
          /\ selectedPill' = "custom"
     ELSE /\ selectedPill' = "custom"
          /\ isEditing' = FALSE
          /\ UNCHANGED editText
  /\ UNCHANGED <<activeColor, tileMarks, originalWords, words,
                 isLoading, selectedDate, puzzleDate>>
  /\ Persist /\ Shown
  /\ lastOp' = Op("handleCustomPill")
  /\ UNCHANGED <<lsPuzzleCache, pendingLoad, envVars, loadHistory>>

\* onChange of the textarea, which is rendered while editing
setEditText(text) ==
  /\ isEditing
  /\ editText' = text
  /\ UNCHANGED <<activeColor, tileMarks, originalWords, words, isEditing,
                 isLoading, selectedDate, selectedPill, puzzleDate>>
  /\ UNCHANGED <<lsGameState, lsPuzzleStates, inForce, shownWords>>
  /\ lastOp' = Op("setEditText")
  /\ UNCHANGED <<lsPuzzleCache, pendingLoad, envVars, loadHistory>>

\* a save of custom words that leaves the puzzle date associated
handleEditSave_KeepsDate ==
  LET newWords == ParseEditText(editText)
  IN /\ isEditing
     /\ originalWords' = newWords
     /\ words' = newWords
     /\ tileMarks' = EmptyMarks
     /\ isEditing' = FALSE
     /\ UNCHANGED <<activeColor, editText, isLoading, selectedDate, selectedPill,
                    puzzleDate>>
     /\ Persist /\ Shown
     /\ lastOp' = Op("handleEditSave")
     /\ UNCHANGED <<lsPuzzleCache, pendingLoad, envVars, loadHistory>>

handleEditSave ==
  LET newWords == ParseEditText(editText)
  IN /\ isEditing
     /\ originalWords' = newWords
     /\ words' = newWords
     /\ tileMarks' = EmptyMarks
     /\ puzzleDate' = NoDate
     /\ isEditing' = FALSE
     /\ UNCHANGED <<activeColor, editText, isLoading, selectedDate, selectedPill>>
     /\ Persist /\ Shown
     /\ lastOp' = Op("handleEditSave")
     /\ UNCHANGED <<lsPuzzleCache, pendingLoad, envVars, loadHistory>>

handleEditCancel ==
  /\ isEditing
  /\ editText' = Join(originalWords)
  /\ isEditing' = FALSE
  /\ UNCHANGED <<activeColor, tileMarks, originalWords, words,
                 isLoading, selectedDate, selectedPill, puzzleDate>>
  /\ UNCHANGED <<lsGameState, lsPuzzleStates, inForce, shownWords>>
  /\ lastOp' = Op("handleEditCancel")
  /\ UNCHANGED <<lsPuzzleCache, pendingLoad, envVars, loadHistory>>

----------------------------------------------------------------------------
(* Puzzle loader *)

CachedPuzzle(date, ws) == [date |-> date, words |-> ws]

\* a lookup that never finds the entry
getCachedPuzzle_NeverHits(date) == None

\* getCachedPuzzle: None when the cache has no entry for the date
getCachedPuzzle(date) ==
  LET cache == loadPuzzleCache
  IN IF date \in DOMAIN cache THEN Some(cache[date].words) ELSE None

\* a lookup that forgets the stored progress
loadPuzzleState_Forgets(date) == None

\* loadPuzzleState
loadPuzzleState(date) ==
  LET cache == loadPuzzleStateCache
  IN IF date \in DOMAIN cache THEN Some(cache[date]) ELSE None

\* a load that keeps the marks on display when the date has no saved progress
AdoptPuzzle_KeepsMarks(date, loadedWords) ==
  LET savedPuzzleState == loadPuzzleState(date)
  IN /\ originalWords' = loadedWords
     /\ words' = loadedWords
     /\ IF savedPuzzleState # None
        THEN /\ tileMarks' = savedPuzzleState[1].tileMarks
             /\ activeColor' = savedPuzzleState[1].activeColor
        ELSE UNCHANGED <<tileMarks, activeColor>>
     /\ editText' = Join(loadedWords)
     /\ puzzleDate' = date
     /\ isLoading' = FALSE

\* the try block of handleLoadTodaysPuzzle and of handleDatePick behind the
\* await, and the finally block
AdoptPuzzle(date, loadedWords) ==
  LET savedPuzzleState == loadPuzzleState(date)
  IN /\ originalWords' = loadedWords
     /\ words' = loadedWords
     /\ IF savedPuzzleState # None
        THEN /\ tileMarks' = savedPuzzleState[1].tileMarks
             /\ activeColor' = savedPuzzleState[1].activeColor
        ELSE /\ tileMarks' = EmptyMarks
             /\ activeColor' = "yellow"
     /\ editText' = Join(loadedWords)
     /\ puzzleDate' = date
     /\ isLoading' = FALSE

LoadOp(name, date, picked, fetched) ==
  [Op(name) EXCEPT !.date = date, !.picked = picked, !.fetched = fetched,
                   !.prev = prevLoad]

Finished(date, fetched, outcome) ==
  [date |-> date, fetched |-> fetched, outcome |-> outcome]

\* fetchPuzzleByDate up to its await: a cached date is answered at once,
\* any other date leaves one request outstanding
BeginLoad(handler, date, picked) ==
  LET cachedWords == getCachedPuzzle(date)
  IN IF cachedWords # None
     THEN /\ AdoptPuzzle(date, cachedWords[1])
          /\ pendingLoad' = None
          /\ lastOp' = LoadOp("loadOk", date, picked, FALSE)
          /\ prevLoad' = Finished(date, FALSE, "ok")
          /\ UNCHANGED <<lsPuzzleCache, fetchedDoc>>
     ELSE /\ isLoading' = TRUE
          /\ pendingLoad' = Some([handler |-> handler, date |-> date,
                                  picked |-> picked])
          /\ lastOp' = LoadOp("loadStart", date, picked, TRUE)
          /\ UNCHANGED <<activeColor, tileMarks, originalWords, words,
                         editText, puzzleDate>>
          /\ UNCHANGED <<lsPuzzleCache, fetchedDoc, prevLoad>>

\* a Today button that stays enabled while a load is outstanding
handleLoadTodaysPuzzle_WhileLoading ==
  /\ ~isEditing
  /\ selectedPill' = "today"
  /\ selectedDate' = today
  /\ BeginLoad("today", today, NoDate)
  /\ UNCHANGED isEditing
  /\ Persist /\ Shown
  /\ UNCHANGED envVars

\* the Today button is disabled while editing or loading
handleLoadTodaysPuzzle ==
  /\ ~isEditing /\ ~isLoading
  /\ selectedPill' = "today"
  /\ selectedDate' = today
  /\ BeginLoad("today", today, NoDate)
  /\ UNCHANGED isEditing
  /\ Persist /\ Shown
  /\ UNCHANGED envVars

handleDatePick(date, picked) ==
  LET dateToUse == IF date # NoDate THEN date ELSE selectedDate
  IN /\ dateToUse # NoDate
     /\ selectedPill' = IF dateToUse = today THEN "today" ELSE "date"
     /\ BeginLoad("date", dateToUse, picked)

\* Date.prototype.toISOString().split('T')[0] of the local midnight of a day:
\* the UTC calendar date, which is the day before in a zone ahead of UTC
ISODateOf(day) == IF tzEast THEN day - 1 ELSE day

\* the calendar offers the days from the minimum to today (local dates);
\* its trigger is disabled while editing or loading
handleCalendarDateSelect(day) ==
  LET dateString == ISODateOf(day)
  IN /\ ~isEditing /\ ~isLoading
     /\ day >= MinAllowedDay /\ day <= today
     /\ selectedDate' = dateString
     /\ handleDatePick(dateString, day)
     /\ UNCHANGED isEditing
     /\ Persist /\ Shown
     /\ UNCHANGED envVars

\* a fetch whose cache write keeps the new entry alone
fetchResolves_EvictsOthers(data) ==
  LET date == pendingLoad[1].date
      ws   == parseNYTData(data)
  IN /\ pendingLoad # None
     /\ lsPuzzleCache' = Written(lsPuzzleCache,
                                 MapPut(EmptyByDate, date, CachedPuzzle(date, ws)))
     /\ AdoptPuzzle(date, ws)
     /\ pendingLoad' = None
     /\ UNCHANGED <<isEditing, selectedDate, selectedPill>>
     /\ Persist /\ Shown
     /\ lastOp' = LoadOp("loadOk", date, pendingLoad[1].picked, TRUE)
     /\ prevLoad' = Finished(date, TRUE, "ok")
     /\ fetchedDoc' = MapPut(fetchedDoc, date, data)
     /\ UNCHANGED envVars

\* the response arrives, is ok and parses: fetchPuzzleByDate caches and
\* returns the words, the handler adopts them
fetchResolves(data) ==
  LET date == pendingLoad[1].date
      ws   == parseNYTData(data)
  IN /\ pendingLoad # None
     /\ lsPuzzleCache' = Written(lsPuzzleCache,
                                 MapPut(loadPuzzleCache, date, CachedPuzzle(date, ws)))
     /\ AdoptPuzzle(date, ws)
     /\ pendingLoad' = None
     /\ UNCHANGED <<isEditing, selectedDate, selectedPill>>
     /\ Persist /\ Shown
     /\ lastOp' = LoadOp("loadOk", date, pendingLoad[1].picked, TRUE)
     /\ prevLoad' = Finished(date, TRUE, "ok")
     /\ fetchedDoc' = MapPut(fetchedDoc, date, data)
     /\ UNCHANGED envVars

\* a failure that caches an empty word list before it throws
fetchFails_CachesNothing ==
  LET date == pendingLoad[1].date
  IN /\ pendingLoad # None
     /\ lsPuzzleCache' = Written(lsPuzzleCache,
                                 MapPut(loadPuzzleCache, date, CachedPuzzle(date, <<>>)))
     /\ selectedPill' = "custom"
     /\ isLoading' = FALSE
     /\ pendingLoad' = None
     /\ UNCHANGED <<activeColor, tileMarks, originalWords, words, isEditing,
                    editText, selectedDate, puzzleDate>>
     /\ Persist /\ Shown
     /\ lastOp' = LoadOp("loadFail", date, pendingLoad[1].picked, TRUE)
     /\ prevLoad' = Finished(date, TRUE, "fail")
     /\ UNCHANGED <<fetchedDoc, envVars>>

\* a failure whose catch block also resets the marks
fetchFails_DropsMarks ==
  LET date == pendingLoad[1].date
  IN /\ pendingLoad # None
     /\ selectedPill' = "custom"
     /\ isLoading' = FALSE
     /\ pendingLoad' = None
     /\ tileMarks' = EmptyMarks
     /\ UNCHANGED <<activeColor, originalWords, words, isEditing,
                    editText, selectedDate, puzzleDate>>
     /\ Persist /\ Shown
     /\ lastOp' = LoadOp("loadFail", date, pendingLoad[1].picked, TRUE)
     /\ prevLoad' = Finished(date, TRUE, "fail")
     /\ UNCHANGED <<lsPuzzleCache, fetchedDoc, envVars>>

\* a failure path without the finally block: the loading flag stays set
fetchFails_StaysLoading ==
  LET date == pendingLoad[1].date
  IN /\ pendingLoad # None
     /\ selectedPill' = "custom"
     /\ pendingLoad' = None
     /\ UNCHANGED <<activeColor, tileMarks, originalWords, words, isEditing,
                    editText, isLoading, selectedDate, puzzleDate>>
     /\ Persist /\ Shown
     /\ lastOp' = LoadOp("loadFail", date, pendingLoad[1].picked, TRUE)
     /\ prevLoad' = Finished(date, TRUE, "fail")
     /\ UNCHANGED <<lsPuzzleCache, fetchedDoc, envVars>>

\* a failure path that leaves the request outstanding, as a retry would
fetchFails_Retries ==
  LET date == pendingLoad[1].date
  IN /\ pendingLoad # None
     /\ selectedPill' = "custom"
     /\ UNCHANGED <<activeColor, tileMarks, originalWords, words, isEditing,
                    editText, isLoading, selectedDate, puzzleDate>>
     /\ UNCHANGED pendingLoad
     /\ Persist /\ Shown
     /\ lastOp' = LoadOp("loadFail", date, pendingLoad[1].picked, TRUE)
     /\ prevLoad' = Finished(date, TRUE, "fail")
     /\ UNCHANGED <<lsPuzzleCache, fetchedDoc, envVars>>

\* the response is not ok, or its body does not parse: fetchPuzzleByDate
\* throws before cachePuzzle, the handler's catch and finally blocks run
fetchFails ==
  LET date == pendingLoad[1].date
  IN /\ pendingLoad # None
     /\ selectedPill' = "custom"
     /\ isLoading' = FALSE
     /\ pendingLoad' = None
     /\ UNCHANGED <<activeColor, tileMarks, originalWords, words, isEditing,
                    editText, selectedDate, puzzleDate>>
     /\ Persist /\ Shown
     /\ lastOp' = LoadOp("loadFail", date, pendingLoad[1].picked, TRUE)
     /\ prevLoad' = Finished(date, TRUE, "fail")
     /\ UNCHANGED <<lsPuzzleCache, fetchedDoc, envVars>>

\* the page is reloaded: the component mounts from the stored snapshot and
\* the effect runs; an outstanding request is abandoned
reload ==
  LET m == Mounted(loadGameState, today)
  IN /\ activeColor' = m.activeColor
     /\ tileMarks' = m.tileMarks
     /\ originalWords' = m.originalWords
     /\ words' = m.words
     /\ isEditing' = FALSE
     /\ editText' = m.editText
     /\ isLoading' = FALSE
     /\ selectedDate' = m.selectedDate
     /\ selectedPill' = m.selectedPill
     /\ puzzleDate' = m.puzzleDate
     /\ pendingLoad' = None
     /\ Persist /\ Shown
     /\ lastOp' = Op("mount")
     /\ prevLoad' = IF pendingLoad # None
                    THEN Finished(pendingLoad[1].date, TRUE, "dropped")
                    ELSE prevLoad
     /\ UNCHANGED <<lsPuzzleCache, fetchedDoc, envVars>>

\* midnight passes on the local clock
nextDay ==
  /\ today < MaxDay
  /\ today' = today + 1
  /\ lastOp' = Op("nextDay")
  /\ UNCHANGED <<uiVars, lsGameState, lsPuzzleCache, lsPuzzleStates,
                 pendingLoad, tzEast, storageFault, inForce, shownWords,
                 fetchedDoc, prevLoad>>

\* localStorage starts or stops throwing on reads, on writes or on both
\* (storage disabled, quota exceeded, a stored value that is not JSON)
storageChanges ==
  /\ \E f \in [reads : BOOLEAN, writes : BOOLEAN] :
       f # storageFault /\ storageFault' = f
  /\ lastOp' = Op("storageChanges")
  /\ UNCHANGED <<uiVars, lsGameState, lsPuzzleCache, lsPuzzleStates,
                 pendingLoad, today, tzEast, inForce, shownWords,
                 fetchedDoc, prevLoad>>

----------------------------------------------------------------------------
(* The application *)

NoRun == UNCHANGED <<base, trail>>

Free == NoRun /\ UNCHANGED used

Gestures == used.clicks + used.loads + used.other

Click ==
  /\ Gestures < MaxGestures
  /\ used' = [used EXCEPT !.clicks = @ + 1]
  /\ NoRun

Other ==
  /\ Gestures < MaxGestures
  /\ used' = [used EXCEPT !.other = @ + 1]
  /\ NoRun

Load ==
  /\ Gestures < MaxGestures
  /\ used' = [used EXCEPT !.loads = @ + 1]
  /\ NoRun

TileClick == \E t \in ClickTiles : handleTileClick(t) /\ Click

PickColor == \E c \in PickColors : setActiveColor(c) /\ Other

SwatchDrop ==
  \E c \in DragPayloads, d \in PickColors : handleDrop(c, d) /\ Other

ResetDrop == \E c \in DragPayloads : handleColorClear(c) /\ Other

Reset == handleReset /\ Other

Shuffle == \E draw \in DrawsFor(Len(originalWords)) : handleShuffle(draw) /\ Other

CustomPill == handleCustomPill /\ Other

Typing == \E text \in TypedTexts : setEditText(text) /\ Other

EditSave == handleEditSave /\ Other

EditCancel == handleEditCancel /\ Other

LoadToday == handleLoadTodaysPuzzle /\ Load

CalendarSelect == \E day \in Days : handleCalendarDateSelect(day) /\ Load

FetchResolves == \E data \in Docs : fetchResolves(data) /\ Free

FetchFails == fetchFails /\ Free

Reload == reload /\ Other

NextDay == nextDay /\ Other

Next ==
  \/ TileClick \/ PickColor \/ SwatchDrop \/ ResetDrop \/ Reset \/ Shuffle
  \/ CustomPill \/ Typing \/ EditSave \/ EditCancel
  \/ LoadToday \/ CalendarSelect \/ FetchResolves \/ FetchFails
  \/ Reload \/ NextDay

Spec == Init /\ [][Next]_vars

----------------------------------------------------------------------------
(* The application on a localStorage that may throw *)

StorageChanges == storageChanges /\ Other

NextStorage ==
  \/ StorageChanges \/ TileClick \/ PickColor
  \/ LoadToday \/ FetchResolves \/ FetchFails \/ Reload

SpecStorage == Init /\ [][NextStorage]_vars

----------------------------------------------------------------------------
(* The loader with requests that settle: the promise fetch returns is
   resolved or rejected by the browser, and the code has no timeout or
   cancellation of its own, so the only progress assumed is the network's.
   FetchResolves and FetchFails are enabled in the same states, those with a
   request outstanding, and a step of either ends the request: weak fairness
   of one of them says that no request stays outstanding for ever and leaves
   open whether it is answered or fails *)

NextLoads ==
  \/ LoadToday \/ CalendarSelect \/ FetchResolves \/ FetchFails
  \/ CustomPill \/ EditCancel \/ TileClick \/ Reload \/ NextDay

RequestSettles == WF_vars(FetchFails)

SpecLoads == Init /\ [][NextLoads]_vars /\ RequestSettles

----------------------------------------------------------------------------
(* Stored visits: the component mounts on what an earlier visit saved *)

\* the value under the game-state key, as getCurrentGameState wrote it
StoredState(ws, marks, color, pill, date) ==
  [originalWords |-> ws, tileMarks |-> marks, activeColor |-> color,
   selectedPill |-> pill, selectedDate |-> date, puzzleDate |-> date]

\* the grid the earlier visit typed in: A, A, B
MarkedWords == ParseEditText(TextTriple)

\* the marks the earlier visit left on the first three tiles
MarkSamples ==
  { EmptyMarks,
    0 :> <<"yellow">>,
    0 :> <<"yellow", "green">>,
    0 :> <<"green", "yellow">>,
    1 :> <<"yellow", "green", "blue">>,
    (0 :> <<"green">>) @@ (1 :> <<"yellow">>),
    (0 :> <<"yellow", "green">>) @@ (2 :> <<"green", "yellow">>),
    (1 :> <<"purple", "yellow">>) @@ (2 :> <<"red">>),
    (0 :> <<"red", "purple", "blue", "green", "yellow">>) @@ (1 :> <<"yellow">>)
      @@ (2 :> <<"blue", "yellow">>) }

\* a step of the recorded run: the handler and its arguments go on the trail
Recorded(name, tile, from, to) ==
  /\ Len(trail) < MaxTrail
  /\ trail' = Append(trail, [op |-> name, tile |-> tile, from |-> from, to |-> to])
  /\ UNCHANGED <<base, used>>

----------------------------------------------------------------------------
(* The marking board: tile clicks and colour swaps on a stored grid *)

InitMarks ==
  /\ tzEast = FALSE
  /\ \E marks \in MarkSamples, color \in Color :
       MountedOn(Some(StoredState(MarkedWords, marks, color, "custom", NoDate)),
                 EmptyByDate)

RunTileClick ==
  \E t \in 0..(Len(words) - 1) :
    handleTileClick(t) /\ Recorded("handleTileClick", t, activeColor, "")

RunColorSwap ==
  \E a, b \in Color :
    handleColorSwap(a, b) /\ Recorded("handleColorSwap", -1, a, b)

RunColorClear ==
  \E c \in Color :
    handleColorClear(c) /\ Recorded("handleColorClear", -1, c, "")

NextMarks == RunTileClick \/ RunColorSwap \/ RunColorClear

SpecMarks == InitMarks /\ [][NextMarks]_vars

----------------------------------------------------------------------------
(* The palette on a stored grid: swatch clicks, drops on swatches with any
   drag payload, and tile clicks *)

InitDrops ==
  /\ tzEast = FALSE
  /\ \E marks \in MarkSamples :
       MountedOn(Some(StoredState(MarkedWords, marks, "yellow", "custom", NoDate)),
                 EmptyByDate)

NextDrops == TileClick \/ PickColor \/ SwatchDrop

SpecDrops == InitDrops /\ [][NextDrops]_vars

----------------------------------------------------------------------------
(* The shuffle: every outcome of the Fisher-Yates loop on a stored grid *)

TextFour == <<"d", " ", "c", " ", "b", " ", "a">>

\* grids with and without repeated words
ShuffledGrids == {MarkedWords, ParseEditText(TextFour), parseNYTData(DocTwoGroups)}

\* Math.floor(Math.random() * (i + 1)) for every loop index i
AllDraws(n) == {f \in [1..(n - 1) -> 0..(n - 1)] : \A i \in 1..(n - 1) : f[i] <= i}

InitShuffle ==
  /\ tzEast = FALSE
  /\ \E ws \in ShuffledGrids, marks \in MarkSamples :
       MountedOn(Some(StoredState(ws, marks, "yellow", "custom", NoDate)),
                 EmptyByDate)

\* the trail keeps the last shuffle: its draws and the order it found on
\* display
ShuffleAny ==
  \E draw \in AllDraws(Len(originalWords)) :
    /\ handleShuffle(draw)
    /\ trail' = <<[op |-> "handleShuffle", draw |-> draw, shown |-> words]>>
    /\ UNCHANGED <<base, used>>

NextShuffle == ShuffleAny

SpecShuffle == InitShuffle /\ [][NextShuffle]_vars

----------------------------------------------------------------------------
(* The word editor on a stored dated puzzle *)

EditorChars == {"a", "B", " ", "\n"}

ExampleText ==
  <<"A","L","P","H","A"," ","b","e","t","a","\n","G","A","M","M","A">>

\* two words more than the grid takes
LongText ==
  Join([k \in 1..(MaxWords + 2) |-> IF k % 2 = 1 THEN <<"a">> ELSE <<"b", "c">>])

EditorTexts ==
  UNION {[1..n -> EditorChars] : n \in 0..MaxTyped} \cup {ExampleText, LongText}

\* the marks of a visit that marked two tiles or more
DatedMarks == {marks \in MarkSamples : Cardinality(DOMAIN marks) >= 2}

\* the earlier visit loaded the puzzle of the minimum date and marked it
InitEdit ==
  /\ tzEast = FALSE
  /\ \E marks \in DatedMarks :
       LET ws == parseNYTData(DocTwoGroups)
       IN MountedOn(Some(StoredState(ws, marks, "yellow", "date", MinAllowedDay)),
                    MapPut(EmptyByDate, MinAllowedDay,
                           CachedPuzzle(MinAllowedDay, ws)))

EditorOpen == handleCustomPill /\ Free

EditorTyping == \E text \in EditorTexts : setEditText(text) /\ Free

EditorSave == handleEditSave /\ Free

EditorCancel == handleEditCancel /\ Free

NextEdit == EditorOpen \/ EditorTyping \/ EditorSave \/ EditorCancel

SpecEdit == InitEdit /\ [][NextEdit]_vars

----------------------------------------------------------------------------
(* The first load of a visit, over every small document *)

DocContents == {<<"a">>, <<"B", "c">>}

DocPositions == {0, 1, 2}

DocCards == {Card(c, p) : c \in DocContents, p \in DocPositions}

SeqsUpTo(S, n) == UNION {[1..k -> S] : k \in 0..n}

\* the ways to lay a list of cards out in one category or in two
Layouts(cards) ==
  {<<cards>>} \cup
  {<<SubSeq(cards, 1, k), SubSeq(cards, k + 1, Len(cards))>> : k \in 0..Len(cards)}

\* a document with one card more than the grid has tiles
DocLong == << [k \in 1..(MaxWords + 1) |-> Card(<<"a">>, k - 1)] >>

\* one or two categories that hold at most MaxCards cards together
AllDocs ==
  UNION {Layouts(cards) : cards \in SeqsUpTo(DocCards, MaxCards)}
    \cup Docs \cup {DocLong}

\* no load has finished in this visit
FirstLoad == prevLoad.outcome = "none" /\ Free

FetchToday == handleLoadTodaysPuzzle /\ FirstLoad

FetchDate == \E day \in Days : handleCalendarDateSelect(day) /\ FirstLoad

FetchAnswers == \E data \in AllDocs : fetchResolves(data) /\ Free

NextFetch == FetchToday \/ FetchDate \/ FetchAnswers \/ FetchFails

SpecFetch == Init /\ [][NextFetch]_vars

----------------------------------------------------------------------------
(* Properties of the loader *)

LoadOps == {"loadStart", "loadOk", "loadFail"}

\* lastOp is a load for the date of the load that finished just before it
SecondLoadOfDate ==
  /\ lastOp.op \in LoadOps
  /\ lastOp.prev.date = lastOp.date

\* C1 as stated: two successive loads for a date issue at most one network
\* request in total.
C1_TwoLoadsOneRequest ==
  SecondLoadOfDate => ~(lastOp.prev.fetched /\ lastOp.fetched)

\* C1, amended: when a load for a date has succeeded, the next load for that
\* date issues no network request and completes at once from the Puzzle Cache.
C1_SecondLoadFromCache ==
  (SecondLoadOfDate /\ lastOp.prev.outcome = "ok") =>
    /\ ~lastOp.fetched
    /\ lastOp.op = "loadOk"
    /\ originalWords = lsPuzzleCache[lastOp.date].words

C1_Witness ==
  /\ SecondLoadOfDate
  /\ lastOp.prev.outcome = "ok"
  /\ lastOp.prev.fetched
  /\ lastOp.op = "loadOk"
  /\ ~lastOp.fetched

\* C2: a successful load for a date makes the tile marks and the active color
\* those of the Progress Cache entry of that date, which are the marks and the
\* color last shown while the date was associated; with no entry the marks
\* become empty and the color yellow.
C2_LoadRestoresProgress ==
  [][lastOp'.op = "loadOk" =>
       LET date == lastOp'.date
       IN /\ puzzleDate' = date
          /\ (date \in DOMAIN inForce) = (date \in DOMAIN lsPuzzleStates)
          /\ IF date \in DOMAIN inForce
             THEN /\ lsPuzzleStates[date] = inForce[date]
                  /\ tileMarks' = inForce[date].tileMarks
                  /\ activeColor' = inForce[date].activeColor
             ELSE /\ tileMarks' = EmptyMarks
                  /\ activeColor' = "yellow"]_vars

\* a date is revisited after another date was loaded, and its marks are back
C2_Witness ==
  /\ lastOp.op = "loadOk"
  /\ lastOp.prev.date # NoDate
  /\ lastOp.prev.date # lastOp.date
  /\ puzzleDate = lastOp.date
  /\ tileMarks # EmptyMarks

\* C6: Reset makes the displayed order the original order, empties the tile
\* marks and makes yellow the active color; the original word list and the
\* puzzle date stay as they were.
C6_ResetRestores ==
  [][lastOp'.op = "handleReset" =>
       /\ words' = originalWords
       /\ tileMarks' = EmptyMarks
       /\ activeColor' = "yellow"
       /\ originalWords' = originalWords
       /\ puzzleDate' = puzzleDate]_vars

\* a reset of a dated puzzle after a tile click
C6_Witness ==
  /\ lastOp.op = "handleReset"
  /\ used.clicks > 0
  /\ puzzleDate # NoDate
  /\ words = originalWords
  /\ tileMarks = EmptyMarks

\* C9: a failed load leaves the Puzzle Cache as it was and reaches the
\* handler's catch block; the cache holds an entry for a date only if a fetch
\* for that date succeeded, and then the words parsed from its document.
C9_CacheOnlyOnSuccess ==
  [][/\ lastOp'.op = "loadFail" =>
          (lsPuzzleCache' = lsPuzzleCache /\ selectedPill' = "custom")
     /\ \A date \in DOMAIN lsPuzzleCache' :
          /\ date \in DOMAIN fetchedDoc'
          /\ lsPuzzleCache'[date].words = parseNYTData(fetchedDoc'[date])]_vars

\* a load failed for a date that is not cached while another date is
C9_Witness ==
  /\ lastOp.op = "loadFail"
  /\ lastOp.date \notin DOMAIN lsPuzzleCache
  /\ DOMAIN lsPuzzleCache # {}

\* C10: a failed load sets the pill to 'custom' and clears the loading flag;
\* neither the start of the load nor its failure touches the word lists, the
\* tile marks, the active color or the puzzle date.
C10_FailedLoadKeepsState ==
  [][/\ lastOp'.op = "loadFail" =>
          (selectedPill' = "custom" /\ ~isLoading')
     /\ lastOp'.op \in {"loadStart", "loadFail"} =>
          UNCHANGED <<originalWords, words, tileMarks, activeColor, puzzleDate>>]_vars

\* a load failed while a dated puzzle with marks was on display
C10_Witness ==
  /\ lastOp.op = "loadFail"
  /\ selectedPill = "custom"
  /\ ~isLoading
  /\ puzzleDate # NoDate
  /\ tileMarks # EmptyMarks

----------------------------------------------------------------------------
(* Properties of the marking board *)

\* the colours of a tile, [] for a tile without an entry
ListAt(marks, t) == IF t \in DOMAIN marks THEN marks[t] ELSE <<>>

\* the recorded run is one tile click repeated on the same tile with the
\* same active colour
ToggledTwice ==
  /\ Len(trail) = 2
  /\ trail[1].op = "handleTileClick"
  /\ trail[2] = trail[1]

\* C3 as stated: toggling the same (tile, colour) pair twice returns the
\* tile's ordered mark list, and the whole tile-mark map, to the original.
C3_ToggleTwiceRestores ==
  ToggledTwice => tileMarks = base[1].tileMarks

\* C3, amended: toggling the same (tile, colour) pair twice leaves every other
\* tile as it was and the tile with the same set of colours; the tile's
\* ordered list is the original one when the colour was absent from it, and
\* otherwise the original one with the colour moved to its end (so it is
\* restored exactly when the colour was absent or last).
C3_ToggleTwiceKeepsColors ==
  ToggledTwice =>
    LET t      == trail[1].tile
        c      == trail[1].from
        before == base[1].tileMarks
        old    == ListAt(before, t)
    IN /\ DOMAIN tileMarks = DOMAIN before
       /\ \A u \in DOMAIN before : u # t => tileMarks[u] = before[u]
       /\ ListAt(tileMarks, t) =
            IF Includes(old, c) THEN Append(Without(old, c), c) ELSE old
       /\ activeColor = base[1].activeColor

\* a tile that carried several colours, the toggled one not last, was toggled
\* twice
C3_Witness ==
  /\ ToggledTwice
  /\ LET old == ListAt(base[1].tileMarks, trail[1].tile)
     IN /\ Len(old) >= 2
        /\ Includes(old, trail[1].from)
        /\ old[Len(old)] # trail[1].from
  /\ tileMarks # base[1].tileMarks

\* the recorded run is one swap applied twice
SwappedTwice ==
  /\ Len(trail) = 2
  /\ trail[1].op = "handleColorSwap"
  /\ trail[2] = trail[1]

\* C4: handleColorSwap(A, B) applied twice leaves every tile's ordered mark
\* list and the active colour exactly as they were before the first swap.
C4_SwapTwiceIsIdentity ==
  SwappedTwice =>
    /\ tileMarks = base[1].tileMarks
    /\ activeColor = base[1].activeColor

\* two different colours, both on one tile and one of them active, were
\* swapped twice
C4_Witness ==
  /\ SwappedTwice
  /\ trail[1].from # trail[1].to
  /\ activeColor = trail[1].from
  /\ \E t \in DOMAIN tileMarks :
       Includes(tileMarks[t], trail[1].from) /\ Includes(tileMarks[t], trail[1].to)
  /\ tileMarks = base[1].tileMarks

\* the recorded run is one step of the named handler
RanOnce(name) ==
  /\ Len(trail) = 1
  /\ trail[1].op = name

\* the board apart from the marks and the active colour is as it was stored
BoardKept ==
  /\ words = MarkedWords
  /\ originalWords = MarkedWords
  /\ puzzleDate = NoDate

\* C26: a single handleColorSwap(A, B) is a true swap: in every tile's list
\* each A becomes B and each B becomes A at the same position, the other
\* colours, the list lengths and the set of marked tiles are unchanged, the
\* active colour is exchanged iff it is A or B, the word lists are unchanged,
\* and swap(A, A) changes nothing.
C26_SwapIsTrueSwap ==
  RanOnce("handleColorSwap") =>
    LET a      == trail[1].from
        b      == trail[1].to
        before == base[1].tileMarks
        active == base[1].activeColor
    IN /\ DOMAIN tileMarks = DOMAIN before
       /\ \A t \in DOMAIN before :
            /\ Len(tileMarks[t]) = Len(before[t])
            /\ \A i \in 1..Len(before[t]) :
                 /\ before[t][i] = a => tileMarks[t][i] = b
                 /\ before[t][i] = b => tileMarks[t][i] = a
                 /\ before[t][i] \notin {a, b} => tileMarks[t][i] = before[t][i]
       /\ active = a => activeColor = b
       /\ active = b => activeColor = a
       /\ active \notin {a, b} => activeColor = active
       /\ BoardKept
       /\ a = b => tileMarks = before /\ activeColor = active

\* two different colours, both on one tile and one of them active, were
\* swapped once, and a third colour stayed where it was
C26_Witness ==
  /\ RanOnce("handleColorSwap")
  /\ trail[1].from # trail[1].to
  /\ base[1].activeColor = trail[1].to
  /\ activeColor = trail[1].from
  /\ \E t \in DOMAIN tileMarks :
       /\ Includes(tileMarks[t], trail[1].from)
       /\ Includes(tileMarks[t], trail[1].to)
       /\ \E i \in 1..Len(tileMarks[t]) : tileMarks[t][i] \notin {trail[1].from, trail[1].to}
  /\ tileMarks # base[1].tileMarks

\* C27: dropping a dragged colour c on the reset control removes c from every
\* tile's mark list and deletes the entries left empty, keeps every other
\* colour of every tile in its relative order, and leaves the active colour,
\* both word lists and the puzzle date unchanged.
C27_ClearRemovesOneColor ==
  RanOnce("handleColorClear") =>
    LET c      == trail[1].from
        before == base[1].tileMarks
    IN /\ DOMAIN tileMarks =
            {t \in DOMAIN before : \E i \in 1..Len(before[t]) : before[t][i] # c}
       /\ \A t \in DOMAIN tileMarks :
            /\ ~Includes(tileMarks[t], c)
            /\ tileMarks[t] = Without(before[t], c)
       /\ activeColor = base[1].activeColor
       /\ BoardKept

\* the cleared colour sat alone on one tile and among others on another,
\* and the active colour was not the default one
C27_Witness ==
  /\ RanOnce("handleColorClear")
  /\ activeColor # "yellow"
  /\ \E t \in DOMAIN base[1].tileMarks : t \notin DOMAIN tileMarks
  /\ \E t \in DOMAIN tileMarks :
       /\ Len(tileMarks[t]) >= 2
       /\ Len(tileMarks[t]) < Len(base[1].tileMarks[t])

\* C28: a toggle on tile t with active colour c changes only t's entry: an
\* absent c is appended as the last element of t's list, a present c is
\* removed and the other colours keep their order; every other tile's list,
\* the active colour, both word lists and the puzzle date are unchanged.
C28_ToggleChangesOneTile ==
  RanOnce("handleTileClick") =>
    LET t      == trail[1].tile
        c      == trail[1].from
        before == base[1].tileMarks
        old    == ListAt(before, t)
    IN /\ c = base[1].activeColor
       /\ DOMAIN tileMarks \ {t} = DOMAIN before \ {t}
       /\ \A u \in DOMAIN before \ {t} : tileMarks[u] = before[u]
       /\ ~Includes(old, c) =>
            /\ t \in DOMAIN tileMarks
            /\ tileMarks[t] = Append(old, c)
       /\ Includes(old, c) => ListAt(tileMarks, t) = Without(old, c)
       /\ activeColor = base[1].activeColor
       /\ BoardKept

\* the active colour was appended to a tile that carried other colours while
\* other tiles were marked too
C28_Witness ==
  /\ RanOnce("handleTileClick")
  /\ LET t == trail[1].tile
     IN /\ t \in DOMAIN base[1].tileMarks
        /\ t \in DOMAIN tileMarks
        /\ Len(tileMarks[t]) = Len(base[1].tileMarks[t]) + 1
        /\ Len(tileMarks[t]) >= 3
        /\ tileMarks[t][Len(tileMarks[t])] = activeColor
        /\ DOMAIN tileMarks \ {t} # {}

----------------------------------------------------------------------------
(* Properties of the shuffle *)

Occurrences(ws, w) == Cardinality({k \in 1..Len(ws) : ws[k] = w})

SameWords(a, b) ==
  /\ Len(a) = Len(b)
  /\ \A k \in 1..Len(a) : Occurrences(a, a[k]) = Occurrences(b, a[k])

\* the marks of every tile of `before` whose word is unique are found at the
\* index that word has in `after`
UniqueMarksFollow(before, marksBefore, after, marksAfter) ==
  \A i \in 1..Len(before) :
    Occurrences(before, before[i]) = 1 =>
      \A j \in 1..Len(after) :
        after[j] = before[i] => ListAt(marksAfter, j - 1) = ListAt(marksBefore, i - 1)

\* C5: a shuffle preserves the multiset of displayed words, and the ordered
\* colour list of every tile whose word is unique is found unchanged at that
\* word's new display index; after any number of consecutive shuffles the
\* same holds with respect to the grid the shuffles began with.
C5_ShufflePreservesMarks ==
  /\ [](/\ SameWords(originalWords, words)
        /\ UniqueMarksFollow(originalWords, base[1].tileMarks, words, tileMarks))
  /\ [][lastOp'.op = "handleShuffle" =>
          /\ SameWords(words, words')
          /\ UniqueMarksFollow(words, tileMarks, words', tileMarks')]_vars

\* a shuffle moved a marked tile whose word is unique
C5_Witness ==
  /\ lastOp.op = "handleShuffle"
  /\ \E i \in 1..Len(originalWords) :
       /\ Occurrences(originalWords, originalWords[i]) = 1
       /\ words[i] # originalWords[i]
       /\ ListAt(base[1].tileMarks, i - 1) # <<>>
       /\ Len(ListAt(base[1].tileMarks, i - 1)) >= 2

Identity(n) == [k \in 1..n |-> k]

AllOrders(n) ==
  {f \in [1..n -> 1..n] : \A a, b \in 1..n : f[a] = f[b] => a = b}

\* the orders the loop gives to n distinct items over all its draws
ShuffleOutcomes(n) == {FisherYates(Identity(n), n - 1, d) : d \in AllDraws(n)}

\* C25: shuffle permutes the original order, not the order on display: the
\* new display is the Fisher-Yates result of the original word list under the
\* draws j_i in 0..i, the original word list never changes, and the draw
\* sequences map one-to-one onto all N! permutations.
C25_ShuffleFromOriginal ==
  /\ [](trail # <<>> =>
          words = FisherYates(originalWords, Len(originalWords) - 1, trail[1].draw))
  /\ [](LET n == Len(originalWords)
        IN /\ ShuffleOutcomes(n) = AllOrders(n)
           /\ Cardinality(AllDraws(n)) = Cardinality(AllOrders(n)))
  /\ [][originalWords' = originalWords]_vars

\* a shuffle of a grid already shuffled, where starting from the display
\* would have given another order
C25_Witness ==
  /\ trail # <<>>
  /\ trail[1].shown # originalWords
  /\ words # originalWords
  /\ words # FisherYates(trail[1].shown, Len(originalWords) - 1, trail[1].draw)
  /\ Cardinality(AllDraws(Len(originalWords))) = 24

----------------------------------------------------------------------------
(* Properties of the word editor *)

\* the indices where a maximal run of non-white-space characters begins
TokenStarts(text) ==
  {i \in 1..Len(text) :
     text[i] \notin WhiteSpace /\ (i = 1 \/ text[i - 1] \in WhiteSpace)}

\* the last index of the run that begins at i
TokenEnd(text, i) ==
  CHOOSE j \in i..Len(text) :
    /\ \A k \in i..j : text[k] \notin WhiteSpace
    /\ (j = Len(text) \/ text[j + 1] \in WhiteSpace)

\* the white-space-separated tokens of the text, upper-cased, in input order,
\* the first MaxWords of them
TokensOf(text) ==
  LET starts == TokenStarts(text)
      n      == IF Cardinality(starts) < MaxWords THEN Cardinality(starts) ELSE MaxWords
      nth(k) == CHOOSE i \in starts : Cardinality({h \in starts : h < i}) = k - 1
  IN [k \in 1..n |-> ToUpperCase(SubSeq(text, nth(k), TokenEnd(text, nth(k))))]

ExampleWords ==
  << <<"A","L","P","H","A">>, <<"B","E","T","A">>, <<"G","A","M","M","A">> >>

\* C7: handleEditSave sets the original and the current word order to the
\* white-space-separated tokens of the editor text, upper-cased, without empty
\* tokens, in input order, the first 16 of them ("ALPHA beta\nGAMMA" gives
\* [ALPHA, BETA, GAMMA]), empties the tile marks and clears the puzzle date.
C7_EditSaveParses ==
  [][lastOp'.op = "handleEditSave" =>
       /\ originalWords' = TokensOf(editText)
       /\ words' = TokensOf(editText)
       /\ (editText = ExampleText => originalWords' = ExampleWords)
       /\ Len(originalWords') <= 16
       /\ tileMarks' = EmptyMarks
       /\ puzzleDate' = NoDate]_vars

\* a text of more than 16 words was saved over a marked dated puzzle
C7_Witness ==
  /\ lastOp.op = "handleEditSave"
  /\ editText = LongText
  /\ Len(originalWords) = 16
  /\ words = originalWords
  /\ base[1].tileMarks # EmptyMarks
  /\ MinAllowedDay \in DOMAIN lsPuzzleStates
  /\ tileMarks = EmptyMarks
  /\ puzzleDate = NoDate

----------------------------------------------------------------------------
(* Properties of the parse of a fetched document *)

\* a card of the document: <<category, place in the category>>
CardIds(data) ==
  UNION {{<<g, k>> : k \in 1..Len(data[g])} : g \in 1..Len(data)}

\* ws lists one upper-cased word per card, by position ascending, cards of
\* one position in document order
IsParseOf(data, ws) ==
  LET ids == CardIds(data)
      card(p) == data[p[1]][p[2]]
      inDocBefore(p, q) == p[1] < q[1] \/ (p[1] = q[1] /\ p[2] < q[2])
      sortsBefore(p, q) ==
        \/ card(p).position < card(q).position
        \/ card(p).position = card(q).position /\ inDocBefore(p, q)
      rank(p) == Cardinality({q \in ids : sortsBefore(q, p)}) + 1
  IN /\ Len(ws) = Cardinality(ids)
     /\ \A p \in ids : ws[rank(p)] = ToUpperCase(card(p).content)

\* C8: the word list adopted by a successful dated load is the parse of the
\* fetched document: one upper-cased word per card of every category,
\* flattened, by position ascending (cat@2, dog@0 gives [DOG, CAT]).
C8_LoadAdoptsParse ==
  (lastOp.op = "loadOk" /\ lastOp.date \in DOMAIN fetchedDoc) =>
    LET data == fetchedDoc[lastOp.date]
    IN /\ IsParseOf(data, originalWords)
       /\ originalWords = parseNYTData(data)
       /\ words = originalWords
       /\ puzzleDate = lastOp.date
       /\ (data = DocExample =>
             originalWords = << <<"D","O","G">>, <<"C","A","T">> >>)

\* a document of two categories whose cards are out of order was fetched
C8_Witness ==
  /\ lastOp.op = "loadOk"
  /\ lastOp.fetched
  /\ fetchedDoc[lastOp.date] = DocTwoGroups
  /\ originalWords = << <<"B">>, <<"A">>, <<"A">>, <<"B"," ","C">> >>

----------------------------------------------------------------------------
(* Properties of the persistence effect *)

\* C11: once a mutation and its persistence effect have run, the stored
\* snapshot equals the in-memory original words, tile marks, active colour,
\* selected pill, selected date and puzzle date, and whenever a puzzle date is
\* associated the Progress Cache entry of that date equals the in-memory tile
\* marks and active colour.
C11_StorageMirrorsMemory ==
  /\ lsGameState = Some(getCurrentGameState)
  /\ puzzleDate # NoDate =>
       /\ puzzleDate \in DOMAIN lsPuzzleStates
       /\ lsPuzzleStates[puzzleDate] = PuzzleStateOf(tileMarks, activeColor)

\* a tile of a dated puzzle was marked after the active colour was changed
C11_Witness ==
  /\ lastOp.op = "handleTileClick"
  /\ puzzleDate # NoDate
  /\ activeColor # "yellow"
  /\ tileMarks # EmptyMarks
  /\ lsPuzzleStates[puzzleDate].tileMarks = tileMarks
  /\ lsGameState[1].puzzleDate = puzzleDate

\* C12 as stated: after an app restart the displayed word order and the
\* colours attached to each word are the same as immediately before it.
C12_RestartKeepsDisplay ==
  [][lastOp'.op = "mount" =>
       /\ words' = words
       /\ \A i \in 1..Len(words) :
            ListAt(tileMarks', i - 1) = ListAt(tileMarks, i - 1)]_vars

----------------------------------------------------------------------------
(* Properties of a localStorage that throws *)

\* C13: a failing write changes nothing that is stored, throws nothing (the
\* handler completes: a tile click still toggles, a resolved fetch is still
\* adopted and the pill stays) and alters no other in-memory state; a failing
\* read is an absent entry: a load finds neither cached words nor saved
\* progress, and a start on an unreadable snapshot yields the sample words,
\* no marks, yellow, the pill 'custom' and no puzzle date.
C13_StorageFailuresDegrade ==
  [][/\ storageFault.writes =>
          UNCHANGED <<lsGameState, lsPuzzleCache, lsPuzzleStates>>
     /\ lastOp'.op = "handleTileClick" =>
          /\ tileMarks' # tileMarks
          /\ UNCHANGED <<activeColor, originalWords, words, selectedPill,
                         selectedDate, puzzleDate>>
     /\ (lastOp'.op = "loadOk" /\ lastOp'.fetched) =>
          /\ originalWords' = parseNYTData(fetchedDoc'[lastOp'.date])
          /\ puzzleDate' = lastOp'.date
          /\ selectedPill' = selectedPill
          /\ ~isLoading'
     /\ (lastOp'.op = "loadOk" /\ storageFault.reads) =>
          /\ lastOp'.fetched
          /\ tileMarks' = EmptyMarks
          /\ activeColor' = "yellow"
     /\ (lastOp'.op = "mount" /\ storageFault.reads) =>
          /\ originalWords' = SAMPLE_WORDS
          /\ words' = SAMPLE_WORDS
          /\ tileMarks' = EmptyMarks
          /\ activeColor' = "yellow"
          /\ selectedPill' = "custom"
          /\ selectedDate' = NoDate
          /\ puzzleDate' = NoDate]_vars

\* the page started on a snapshot of a dated puzzle that could neither be read
\* nor overwritten
C13_Witness ==
  /\ lastOp.op = "mount"
  /\ storageFault.reads
  /\ storageFault.writes
  /\ lsGameState # None
  /\ lsGameState[1].puzzleDate # NoDate
  /\ puzzleDate = NoDate
  /\ selectedPill = "custom"
  /\ originalWords = SAMPLE_WORDS

----------------------------------------------------------------------------
(* Properties of the dates *)

\* C14 as stated: in every timezone, choosing a day the picker allows sets
\* the selected date to that local calendar day and loads the puzzle keyed by
\* that same day.
C14_PickedDayIsLoaded ==
  (lastOp.op \in LoadOps /\ lastOp.picked # NoDate) =>
    /\ selectedDate = lastOp.picked
    /\ lastOp.date = lastOp.picked

\* C15 as stated: every date a load is started for, and every date that is
\* associated, lies between the minimum date and today's local date.
C15_LoadedDatesAllowed ==
  /\ lastOp.op \in LoadOps =>
       (MinAllowedDay <= lastOp.date /\ lastOp.date <= today)
  /\ puzzleDate # NoDate =>
       (MinAllowedDay <= puzzleDate /\ puzzleDate <= today)

----------------------------------------------------------------------------
(* Properties of revisiting a date *)

\* C16 as stated: when a date whose puzzle has unique words is loaded again,
\* after it was left or while it is displayed, each word shows the colours it
\* had when the date was last displayed.
C16_RevisitKeepsWordColors ==
  [][lastOp'.op = "loadOk" =>
       LET date == lastOp'.date
       IN (/\ date \in DOMAIN shownWords
           /\ \A i \in 1..Len(shownWords[date]) :
                Occurrences(shownWords[date], shownWords[date][i]) = 1) =>
            UniqueMarksFollow(shownWords[date], inForce[date].tileMarks,
                              words', tileMarks')]_vars

----------------------------------------------------------------------------
(* Properties of the reachable states *)

\* C17 as stated: whenever no load is in flight, the pill 'custom' implies
\* that no puzzle date is associated.
C17_CustomHasNoDate ==
  (pendingLoad = None /\ ~isLoading /\ selectedPill = "custom") =>
    puzzleDate = NoDate

\* C18 as stated: the active colour and every colour of every tile's mark
\* list is one of the five enumerated colours, whatever is dropped on a
\* swatch or on the reset control.
C18_ColorsEnumerated ==
  /\ activeColor \in Color
  /\ \A t \in DOMAIN tileMarks :
       \A i \in 1..Len(tileMarks[t]) : tileMarks[t][i] \in Color

\* C19 as stated: the original and the displayed word list hold at most 16
\* words, whether they come from manual entry or from a dated fetch.
C19_AtMostSixteenWords ==
  /\ Len(originalWords) <= 16
  /\ Len(words) <= 16

\* C20: every key of the tile-mark map is a display index, 0 <= index <
\* number of displayed words, after any sequence of toggles, shuffles,
\* resets, swaps, clears, word edits, date loads and restarts.
C20_MarkKeysAreTiles ==
  \A t \in DOMAIN tileMarks : 0 <= t /\ t < Len(words)

\* a puzzle of two words is on display while the saved progress of another
\* date holds a mark on the fourth tile
C20_Witness ==
  /\ lastOp.op = "loadOk"
  /\ Len(words) = 2
  /\ \E d \in DOMAIN lsPuzzleStates :
       /\ d # puzzleDate
       /\ 3 \in DOMAIN lsPuzzleStates[d].tileMarks

\* C21: no tile-mark entry holds an empty colour list: a tile left without
\* colours by a toggle or by clear-colour is removed from the map, and swap
\* and shuffle never create an empty entry.
C21_NoEmptyEntries ==
  \A t \in DOMAIN tileMarks : Len(tileMarks[t]) > 0

\* the only two gestures were tile clicks and the second took the last colour
\* off its tile
C21_Witness ==
  /\ lastOp.op = "handleTileClick"
  /\ used = [clicks |-> 2, loads |-> 0, other |-> 0]
  /\ tileMarks = EmptyMarks

----------------------------------------------------------------------------
(* Properties of the caches *)

\* C22: Puzzle Cache entries never expire, change or get evicted: once the
\* cache holds a word list for a date, every later state holds the same word
\* list for it, whatever loads follow.
C22_CacheEntriesStay ==
  [][\A d \in DOMAIN lsPuzzleCache :
       /\ d \in DOMAIN lsPuzzleCache'
       /\ lsPuzzleCache'[d] = lsPuzzleCache[d]]_vars

\* the cache holds two dates and a later load of one of them was answered
\* from it after a load of the other
C22_Witness ==
  /\ Cardinality(DOMAIN lsPuzzleCache) = 2
  /\ lastOp.op = "loadOk"
  /\ ~lastOp.fetched
  /\ lastOp.prev.date # lastOp.date
  /\ lastOp.prev.outcome = "ok"

----------------------------------------------------------------------------
(* Properties of the loading flag *)

\* C23: at most one puzzle load is in flight at any time: isLoading is true
\* exactly while a load is outstanding, and no Today or date-picker load
\* starts while isLoading is true.
C23_OneLoadInFlight ==
  /\ [](isLoading <=> pendingLoad # None)
  /\ [][used'.loads # used.loads => ~isLoading /\ pendingLoad = None]_vars

\* a load is outstanding and the user went on marking tiles meanwhile
C23_Witness ==
  /\ isLoading
  /\ pendingLoad # None
  /\ lastOp.op = "handleTileClick"

\* C24: every started load eventually clears the loading flag once its
\* request settles; the success, cache-hit and failure paths all end with
\* the flag cleared.
C24_LoadingEnds ==
  /\ [](lastOp.op \in {"loadOk", "loadFail"} => ~isLoading)
  /\ (isLoading ~> ~isLoading)

\* a load failed after an earlier one had succeeded, and the flag is clear
C24_Witness ==
  /\ lastOp.op = "loadFail"
  /\ lastOp.prev.outcome = "ok"
  /\ ~isLoading

----------------------------------------------------------------------------
(* Properties of the requests and of the progress cache *)

\* C29: each load action issues at most one network request and none when
\* the date is already in the Puzzle Cache; a failed fetch is never retried:
\* a request is outstanding only for a date the cache does not hold, a load
\* answered from the cache leaves none outstanding, and after a failure (as
\* after a success) nothing is outstanding and nothing was cached.
C29_OneRequestPerLoad ==
  /\ pendingLoad # None =>
       /\ isLoading
       /\ pendingLoad[1].date \notin DOMAIN lsPuzzleCache
  /\ lastOp.op = "loadStart" =>
       /\ pendingLoad # None
       /\ pendingLoad[1].date = lastOp.date
  /\ lastOp.op = "loadOk" =>
       /\ pendingLoad = None
       /\ lastOp.date \in DOMAIN lsPuzzleCache
  /\ lastOp.op = "loadFail" =>
       /\ pendingLoad = None
       /\ ~isLoading
       /\ lastOp.date \notin DOMAIN lsPuzzleCache

\* a request failed while the cache held the puzzle of another date
C29_Witness ==
  /\ lastOp.op = "loadFail"
  /\ pendingLoad = None
  /\ DOMAIN lsPuzzleCache # {}
  /\ lastOp.prev.outcome = "ok"
  /\ ~lastOp.prev.fetched

\* C30: the Progress Cache entry of a date D changes only while D is the
\* associated puzzle date: every step keeps the entry of every date other
\* than the one associated after the step, and adds an entry for that date
\* only.
C30_OtherEntriesKept ==
  [][/\ \A d \in DOMAIN lsPuzzleStates :
          /\ d \in DOMAIN lsPuzzleStates'
          /\ lsPuzzleStates'[d] # lsPuzzleStates[d] => puzzleDate' = d
     /\ \A d \in DOMAIN lsPuzzleStates' \ DOMAIN lsPuzzleStates :
          puzzleDate' = d]_vars

\* a tile was clicked under one date while the progress of another date,
\* with other marks, was stored
C30_Witness ==
  /\ lastOp.op = "handleTileClick"
  /\ puzzleDate # NoDate
  /\ tileMarks # EmptyMarks
  /\ \E d \in DOMAIN lsPuzzleStates :
       /\ d # puzzleDate
       /\ lsPuzzleStates[d].tileMarks # EmptyMarks
       /\ lsPuzzleStates[d].tileMarks # tileMarks

----------------------------------------------------------------------------
(* Properties of the word lists *)

\* C31: whenever a puzzle date is associated (and storage works), the
\* original word list in memory equals the word list the Puzzle Cache holds
\* for that date.
C31_WordsAreCachedWords ==
  puzzleDate # NoDate =>
    /\ puzzleDate \in DOMAIN lsPuzzleCache
    /\ originalWords = lsPuzzleCache[puzzleDate].words

\* the page was reloaded on a dated puzzle after the puzzle of another date
\* had been cached too
C31_Witness ==
  /\ lastOp.op = "mount"
  /\ puzzleDate # NoDate
  /\ \E d \in DOMAIN lsPuzzleCache :
       /\ d # puzzleDate
       /\ lsPuzzleCache[d].words # originalWords

\* C32: in every reachable state the displayed word list is a permutation of
\* the original word list (same length, same multiset), across edits, loads,
\* shuffles, resets and restarts.
C32_DisplayPermutesOriginal ==
  SameWords(originalWords, words)

\* a loaded puzzle is on display in another order than the original one
C32_Witness ==
  /\ lastOp.op = "handleShuffle"
  /\ puzzleDate # NoDate
  /\ words # originalWords
  /\ Len(words) = Len(originalWords)

----------------------------------------------------------------------------
(* Properties of the pills *)

\* C33: the 'today' pill stands for today's puzzle: a start without persisted
\* state gives 'custom'; a persisted 'today' whose persisted puzzle date is
\* not the local date is restored as 'date' and anything else as persisted;
\* a load sets the pill to 'today' iff the date it loads is the local date
\* at that time (also when the date comes from the date picker), and the
\* pill stays as set until the load has succeeded.
C33_TodayPillIsTodaysPuzzle ==
  /\ [](Gestures = 0 => selectedPill = "custom")
  /\ [][lastOp'.op = "mount" =>
          selectedPill' =
            IF lsGameState = None THEN "custom"
            ELSE IF /\ lsGameState[1].selectedPill = "today"
                    /\ lsGameState[1].puzzleDate # today
                 THEN "date"
                 ELSE lsGameState[1].selectedPill]_vars
  /\ [][used'.loads # used.loads =>
          /\ lastOp'.op \in {"loadStart", "loadOk"}
          /\ selectedPill' = "today" <=> lastOp'.date = today
          /\ selectedPill' \in {"today", "date"}]_vars
  /\ [][pendingLoad # None /\ lastOp'.op \notin {"loadFail", "mount"} =>
          selectedPill' = selectedPill]_vars
  /\ [][pendingLoad # None /\ lastOp'.op = "loadOk" =>
          puzzleDate' = pendingLoad[1].date]_vars

\* the page was loaded with today's puzzle, midnight passed and the page was
\* reloaded: the pill of yesterday's puzzle is 'date'
C33_Witness ==
  /\ lastOp.op = "mount"
  /\ used = [clicks |-> 0, loads |-> 1, other |-> 2]
  /\ today = MinAllowedDay + 1
  /\ puzzleDate = MinAllowedDay
  /\ selectedPill = "date"
  /\ ~tzEast

\* C34: a load is never in flight while the word editor is open: isEditing
\* and isLoading are never both true, no request is outstanding under an
\* open editor, and no load starts or completes with the editor open.
C34_NoLoadWhileEditing ==
  /\ ~(isEditing /\ isLoading)
  /\ pendingLoad # None => ~isEditing
  /\ lastOp.op \in LoadOps => ~isEditing

\* the editor is open on a loaded puzzle and its text is being changed
C34_Witness ==
  /\ isEditing
  /\ ~isLoading
  /\ puzzleDate # NoDate
  /\ lastOp.op = "setEditText"

----------------------------------------------------------------------------
(* Properties of the editor round trip *)

\* C35: opening the word editor and saving without changing the text leaves
\* the displayed word list unchanged: a save whose text is still the
\* space-joined displayed words, for any word list the program holds
\* (fetched lists included), changes no word.
C35_UntouchedSaveKeepsWords ==
  [][lastOp'.op = "handleEditSave" /\ editText = Join(words) => words' = words]_vars

----------------------------------------------------------------------------
(* Properties of the mark lists *)

\* no list of the map holds a value twice
NoRepeatedColor(marks) ==
  \A t \in DOMAIN marks :
    \A i, j \in 1..Len(marks[t]) : marks[t][i] = marks[t][j] => i = j

\* C36: in every reachable state no tile's mark list contains the same colour
\* twice, hence a tile carries at most 5 colours.
C36_NoColorTwice ==
  /\ NoRepeatedColor(tileMarks)
  /\ \A t \in DOMAIN tileMarks : Len(tileMarks[t]) <= Cardinality(Color)

====
